---------------------------- MODULE Spec2Model ----------------------------
(***************************************************************************)
(* A state-machine model of the vehicle-soccer game: the arena's goal      *)
(* test (Stadium.checkGoal), the kinematic car controller (Car), the ball  *)
(* wrapper (Ball), the match orchestration (Game) and the frame driver     *)
(* (animate).                                                              *)
(*                                                                         *)
(* Numbers are fixed point.  Lengths are in thousandths of a world unit,   *)
(* speeds in thousandths of a unit per second, angles in milliradians,     *)
(* times in milliseconds.  A product "rate * deltaTime" of the source is   *)
(* (rate * dt) / 1000 here, rounded toward zero.                           *)
(***************************************************************************)
EXTENDS Integers, Sequences, FiniteSets, TLC

VARIABLES
    \* ---- Game (src/js/game.js) and the frame driver (animate) ----
    score,            \* Game.score: [blue, orange]
    timeRemaining,    \* Game.timeRemaining, ms
    isGameOver,       \* Game.isGameOver
    isPaused,         \* Game.isPaused
    countdownTime,    \* Game.countdownTime
    isCountingDown,   \* Game.isCountingDown
    aiWasBoosting,    \* Game.aiWasBoosting
    pendingIntervals, \* number of countdown setInterval timers not yet cleared
    boostPlaying,     \* AudioManager.playingSounds.boost is set
    lastTime,         \* the frame driver's lastTime, ms
    ball,             \* Ball: the rigid body's position/velocity and the mesh position
    playerCar,        \* Game.playerCar
    opponentCar,      \* Game.opponentCar
    \* ---- observation of the last frame (history variables) ----
    tickLog,          \* the last frame: the flags it found, whether it ticked the
                      \* match, the steps it ran in order, the ball position its
                      \* goal check read, the delta it handed to world.step
                      \* and Game.update
    frames,           \* number of frames run so far
    \* ---- unit harnesses ----
    probe,            \* Stadium.checkGoal applied to one ball position
    car,              \* one Car driven directly through its methods
    carLog,           \* what the last Car method call did
    twin,             \* a second Car, run side by side with `car`
    hit,              \* one Car.handleBallCollision call: the ball and what it got
    limited           \* one Car of the rate-limited variant

vars == << score, timeRemaining, isGameOver, isPaused, countdownTime,
           isCountingDown, aiWasBoosting, pendingIntervals, boostPlaying,
           lastTime, ball, playerCar, opponentCar, tickLog, frames,
           probe, car, carLog, twin, hit, limited >>

gameVars == << score, timeRemaining, isGameOver, isPaused, countdownTime,
               isCountingDown, aiWasBoosting, pendingIntervals, boostPlaying,
               lastTime, ball, playerCar, opponentCar, tickLog, frames >>

-----------------------------------------------------------------------------
(* Arithmetic helpers *)

Abs(a) == IF a < 0 THEN -a ELSE a

Min(a, b) == IF a < b THEN a ELSE b

Max(a, b) == IF a > b THEN a ELSE b

Sign(a) == IF a > 0 THEN 1 ELSE IF a < 0 THEN -1 ELSE 0

\* a * n / d, rounded toward zero (the source computes it in floating point)
Scale(a, n, d) == Sign(a) * Sign(n) * ((Abs(a) * Abs(n)) \div d)

\* rate (per second) times a delta in milliseconds
PerMs(rate, dt) == Scale(rate, dt, 1000)

\* a clamp without its lower bound
ClampNoFloor(value, lo, hi) == Min(hi, value)

\* utils.js clamp
clamp(value, lo, hi) == Max(lo, Min(hi, value))

Vec(a, b, c) == [x |-> a, y |-> b, z |-> c]

\* one world unit in model units
Unit == 1000

-----------------------------------------------------------------------------
(* Stadium: the point-in-goal test *)

\* Stadium.dimensions.length of the current arena
StadiumLength == 450

\* the constants of checkGoal in the current arena
goalWidth == 80
goalHeight == 60
goalDepth == 25

\* the constants of checkGoal in the earlier arena variant of the same length
goalWidthOld == 40
goalHeightOld == 30
goalDepthOld == 20

GoalDims == [w |-> goalWidth * Unit, h |-> goalHeight * Unit,
             d |-> goalDepth * Unit, len |-> StadiumLength * Unit]

GoalDimsOld == [w |-> goalWidthOld * Unit, h |-> goalHeightOld * Unit,
                d |-> goalDepthOld * Unit, len |-> StadiumLength * Unit]

\* the overlapping test a copied lower bound would give
InOrangeGoalCopied(g, p) ==
    /\ p.x > -(g.w \div 2)
    /\ p.x < g.w \div 2
    /\ p.y < g.h
    /\ p.z > -(g.len \div 2 + g.d)
    /\ p.z < (g.len \div 2 + g.d)

\* the first test of checkGoal: the blue goal, at negative z
InBlueGoal(g, p) ==
    /\ p.x > -(g.w \div 2)
    /\ p.x < g.w \div 2
    /\ p.y < g.h
    /\ p.z < -(g.len \div 2)
    /\ p.z > -(g.len \div 2 + g.d)

\* the second test of checkGoal: the orange goal, at positive z
InOrangeGoal(g, p) ==
    /\ p.x > -(g.w \div 2)
    /\ p.x < g.w \div 2
    /\ p.y < g.h
    /\ p.z > (g.len \div 2)
    /\ p.z < (g.len \div 2 + g.d)

\* checkGoal with the depth band's far bound included
CheckGoalClosedBand(g, p) ==
    IF /\ p.x > -(g.w \div 2) /\ p.x < g.w \div 2 /\ p.y < g.h
       /\ p.z < -(g.len \div 2) /\ p.z >= -(g.len \div 2 + g.d)
    THEN "orange"
    ELSE IF InOrangeGoal(g, p) THEN "blue" ELSE "none"

\* checkGoal crediting the defending team
CheckGoalSameTeam(g, p) ==
    IF InBlueGoal(g, p) THEN "blue"
    ELSE IF InOrangeGoal(g, p) THEN "orange"
    ELSE "none"

\* Stadium.checkGoal(ballPosition); "none" is the source's null
CheckGoalWith(g, p) ==
    IF InBlueGoal(g, p) THEN "orange"
    ELSE IF InOrangeGoal(g, p) THEN "blue"
    ELSE "none"

\* the arena the game runs with
checkGoal(p) == CheckGoalWith(GoalDims, p)

-----------------------------------------------------------------------------
(* Car (src/js/car.js): the kinematic controller *)

\* Car.dimensions
dimWidth == 8
dimHeight == 5
dimLength == 12

\* Car physics properties, in whole units
maxSpeed == 80
acceleration == 120
deceleration == 200
gravity == 20
jumpForce == 10
boostForce == 200
boostRechargeRate == 10
\* Car.turnSpeed, 2.5 rad/s, in mrad/s
turnSpeed == 2500
\* Car.driftTurnMultiplier, 1.8, in tenths
driftTurnMultiplier == 18
\* Car.jumpCooldownTime, 0.3 s, in ms
jumpCooldownTime == 300
\* a full boost tank, in whole percent
boostFull == 100
\* spawn offsets of Car.reset, in whole units
spawnX == 50
spawnZ == 120
\* the arena size hard-coded in Car.update, in whole units
carStadiumWidth == 300
carStadiumLength == 450
\* the out-of-bounds floor of Car.update and Ball.update, in whole units (negated)
fallDepth == 50
\* Math.PI in mrad
PiMilli == 3142

\* Car.groundLevel = dimensions.height / 2 + 0.5
groundLevel == (dimHeight * Unit) \div 2 + Unit \div 2

Teams == {"blue", "orange"}

Intents == {"forward", "backward", "left", "right", "boost", "jump", "drift"}

NoControls == [k \in Intents |-> FALSE]

\* Bhaskara's rational approximation of 1000 * sin(x) for x in 0..PiMilli
SinHalf(x) ==
    LET p == x * (PiMilli - x)
    IN  (16 * p) \div ((5 * PiMilli * PiMilli - 4 * p) \div 1000)

\* 1000 * sin(a), a in mrad
Sin(a) ==
    LET r == a % (2 * PiMilli)
    IN  IF r <= PiMilli THEN SinHalf(r) ELSE -SinHalf(r - PiMilli)

Cos(a) == Sin(a + PiMilli \div 2)

\* new THREE.Vector3(0, 0, 1).applyEuler(rotation), scaled by 1000
ForwardDir(yaw) == Vec(Sin(yaw), 0, Cos(yaw))

\* the spawn position and heading of a team
SpawnPosition(team) ==
    Vec(IF team = "blue" THEN -spawnX * Unit ELSE spawnX * Unit,
        groundLevel,
        IF team = "blue" THEN -spawnZ * Unit ELSE spawnZ * Unit)

SpawnYaw(team) == IF team = "blue" THEN 0 ELSE PiMilli

\* a reset that keeps the control intents
CarResetKeepControls(c) ==
    [c EXCEPT !.position = SpawnPosition(c.team),
              !.rotY = SpawnYaw(c.team),
              !.velocity = Vec(0, 0, 0),
              !.angularVelocity = 0,
              !.speed = 0,
              !.boostAmount = boostFull * Unit,
              !.canJump = TRUE,
              !.isJumping = FALSE,
              !.jumpCooldown = 0,
              !.isDrifting = FALSE,
              !.isOnGround = TRUE]

\* Car.reset() with no argument
CarReset(c) ==
    [c EXCEPT !.position = SpawnPosition(c.team),
              !.rotY = SpawnYaw(c.team),
              !.velocity = Vec(0, 0, 0),
              !.angularVelocity = 0,
              !.speed = 0,
              !.boostAmount = boostFull * Unit,
              !.canJump = TRUE,
              !.isJumping = FALSE,
              !.jumpCooldown = 0,
              !.isDrifting = FALSE,
              !.isOnGround = TRUE,
              !.controls = NoControls]

\* the car as Game.init leaves it: constructed, then reset by startCountdown
NewCar(team) ==
    [team |-> team,
     position |-> SpawnPosition(team),
     rotY |-> SpawnYaw(team),
     velocity |-> Vec(0, 0, 0),
     angularVelocity |-> 0,
     speed |-> 0,
     isBoosting |-> FALSE,
     boostAmount |-> boostFull * Unit,
     canJump |-> TRUE,
     isJumping |-> FALSE,
     jumpCooldown |-> 0,
     isDrifting |-> FALSE,
     isOnGround |-> TRUE,
     controls |-> NoControls]

\* a setControls that replaces the snapshot, unnamed intents falling to false
SetControlsReplace(c, partial) ==
    [c EXCEPT !.controls =
        [k \in Intents |-> IF k \in DOMAIN partial THEN partial[k] ELSE FALSE]]

\* Car.setControls(controls): { ...this.controls, ...controls }
SetControls(c, partial) ==
    [c EXCEPT !.controls =
        [k \in Intents |-> IF k \in DOMAIN partial THEN partial[k] ELSE @[k]]]

\* the no-input branch without the stop at zero
BrakeOvershoot(speed, dt) ==
    IF speed > 0 THEN speed - PerMs(deceleration * Unit, dt)
    ELSE IF speed < 0 THEN speed + PerMs(deceleration * Unit, dt)
    ELSE speed

\* the no-input branch with only its forward half
BrakeForwardOnly(speed, dt) ==
    IF speed > 0
    THEN LET s == speed - PerMs(deceleration * Unit, dt)
         IN  IF s < 0 THEN 0 ELSE s
    ELSE speed

\* a deceleration at twice the rate
BrakeTwice(speed, dt) ==
    IF speed > 0
    THEN LET s == speed - 2 * PerMs(deceleration * Unit, dt)
         IN  IF s < 0 THEN 0 ELSE s
    ELSE IF speed < 0
    THEN LET s == speed + 2 * PerMs(deceleration * Unit, dt)
         IN  IF s > 0 THEN 0 ELSE s
    ELSE speed

\* handleControls, no forward or backward intent: automatic deceleration
Brake(speed, dt) ==
    IF speed > 0
    THEN LET s == speed - PerMs(deceleration * Unit, dt)
         IN  IF s < 0 THEN 0 ELSE s
    ELSE IF speed < 0
    THEN LET s == speed + PerMs(deceleration * Unit, dt)
         IN  IF s > 0 THEN 0 ELSE s
    ELSE speed

\* handleControls: acceleration and braking
Throttle(c, dt) ==
    IF c.controls.forward THEN c.speed + PerMs(acceleration * Unit, dt)
    ELSE IF c.controls.backward THEN c.speed - PerMs(acceleration * Unit, dt)
    ELSE Brake(c.speed, dt)

\* handleControls: isDrivingBackward, read before the speed changes
IsDrivingBackward(c) ==
    (c.controls.backward /\ ~c.controls.forward) \/ c.speed < 0

\* handleControls: the boost condition
BoostActive(c) ==
    c.controls.boost /\ ~IsDrivingBackward(c) /\ c.isOnGround

\* the speed update with the boosted ceiling whether boosting or not
NextSpeedNoPlainCap(c, dt) ==
    LET boosting == BoostActive(c)
        s1 == Throttle(c, dt)
        s2 == IF boosting THEN s1 + PerMs(boostForce * Unit, dt) ELSE s1
    IN  clamp(s2, -Scale(maxSpeed * Unit, 6, 10), Scale(maxSpeed * Unit, 15, 10))

\* the speed update with the boosted ceiling below the plain one
NextSpeedBoostHalved(c, dt) ==
    LET boosting == BoostActive(c)
        s1 == Throttle(c, dt)
        s2 == IF boosting THEN s1 + PerMs(boostForce * Unit, dt) ELSE s1
        effectiveMaxSpeed == IF boosting THEN Scale(maxSpeed * Unit, 5, 10)
                             ELSE maxSpeed * Unit
    IN  clamp(s2, -Scale(maxSpeed * Unit, 6, 10), effectiveMaxSpeed)

\* handleControls: the speed after throttle, boost and clamp
NextSpeed(c, dt) ==
    LET boosting == BoostActive(c)
        s1 == Throttle(c, dt)
        s2 == IF boosting THEN s1 + PerMs(boostForce * Unit, dt) ELSE s1
        effectiveMaxSpeed == IF boosting THEN Scale(maxSpeed * Unit, 15, 10)
                             ELSE maxSpeed * Unit
    IN  clamp(s2, -Scale(maxSpeed * Unit, 6, 10), effectiveMaxSpeed)

\* the turn effectiveness without its floor
SpeedFactorNoFloor(speed) ==
    1000 - Scale(Abs(speed), 200, maxSpeed * Unit)

\* handleControls: turn effectiveness, in thousandths
SpeedFactor(speed) ==
    Max(800, 1000 - Scale(Abs(speed), 200, maxSpeed * Unit))

\* handleControls: the angular velocity after the turning block
NextAngularVelocity(c, speed, drifting) ==
    IF ~c.isOnGround THEN c.angularVelocity
    ELSE LET backward == IsDrivingBackward(c)
             turnAmount == IF c.controls.left THEN (IF backward THEN -1 ELSE 1)
                           ELSE IF c.controls.right THEN (IF backward THEN 1 ELSE -1)
                           ELSE 0
             base == Scale(Scale(turnSpeed, 15, 10), SpeedFactor(speed), 1000)
             rate == IF drifting THEN Scale(base, driftTurnMultiplier, 10) ELSE base
         IN  IF turnAmount # 0 THEN turnAmount * rate
             ELSE Scale(c.angularVelocity, 9, 10)

\* a jump condition that asks for the intent alone
JumpArmedByIntent(c) == c.controls.jump

\* handleControls: the jump condition
JumpArmed(c) ==
    c.controls.jump /\ c.canJump /\ ~c.isJumping /\ c.isOnGround

\* Car.handleControls(deltaTime)
HandleControls(c, dt) ==
    LET forwardDir == ForwardDir(c.rotY)
        boosting == BoostActive(c)
        speed == NextSpeed(c, dt)
        drifting == c.controls.drift /\ Abs(speed) > 20 * Unit /\ c.isOnGround
        angVel == NextAngularVelocity(c, speed, drifting)
        moving == Abs(speed) > Unit \div 10
        vx == IF moving THEN Scale(forwardDir.x, speed, 1000)
              ELSE Scale(c.velocity.x, 95, 100)
        vz == IF moving THEN Scale(forwardDir.z, speed, 1000)
              ELSE Scale(c.velocity.z, 95, 100)
        jumps == JumpArmed(c)
    IN  [c EXCEPT !.speed = speed,
                  !.isBoosting = boosting,
                  !.isDrifting = drifting,
                  !.angularVelocity = angVel,
                  !.velocity = Vec(vx, IF jumps THEN jumpForce * Unit ELSE @.y, vz),
                  !.isOnGround = IF jumps THEN FALSE ELSE @,
                  !.isJumping = IF jumps THEN TRUE
                                ELSE IF ~c.controls.jump THEN FALSE ELSE @,
                  !.canJump = IF jumps THEN FALSE ELSE @,
                  !.jumpCooldown = IF jumps THEN jumpCooldownTime ELSE @]

\* Car.update: gravity, integration of position and heading, ground collision
Integrate(c, dt) ==
    LET vy1 == IF ~c.isOnGround THEN c.velocity.y - PerMs(gravity * Unit, dt)
               ELSE c.velocity.y
        px == c.position.x + PerMs(c.velocity.x, dt)
        py == c.position.y + PerMs(vy1, dt)
        pz == c.position.z + PerMs(c.velocity.z, dt)
        landed == py <= groundLevel
    IN  [c EXCEPT !.position = Vec(px, IF landed THEN groundLevel ELSE py, pz),
                  !.velocity = Vec(@.x, IF landed THEN 0 ELSE vy1, @.z),
                  !.rotY = @ + PerMs(c.angularVelocity, dt),
                  !.isOnGround = IF landed THEN TRUE ELSE @]

\* the timers with canJump re-armed whatever the cooldown
TimersRearmEarly(c, dt) ==
    [c EXCEPT !.jumpCooldown = IF @ > 0 THEN @ - dt ELSE @,
              !.canJump = IF ~c.canJump /\ c.isOnGround THEN TRUE ELSE @,
              !.boostAmount =
                  IF ~c.isBoosting /\ @ < boostFull * Unit
                  THEN Min(@ + PerMs(boostRechargeRate * Unit, dt), boostFull * Unit)
                  ELSE @]

\* Car.update: jump cooldown and boost recharge
Timers(c, dt) ==
    [c EXCEPT !.jumpCooldown = IF @ > 0 THEN @ - dt ELSE @,
              !.canJump = IF c.jumpCooldown > 0 THEN @
                          ELSE IF ~c.canJump /\ c.isOnGround THEN TRUE ELSE @,
              !.boostAmount =
                  IF ~c.isBoosting /\ @ < boostFull * Unit
                  THEN Min(@ + PerMs(boostRechargeRate * Unit, dt), boostFull * Unit)
                  ELSE @]

\* the out-of-bounds reset alone, without the walls
BoundsNoWalls(c) ==
    IF c.position.y < -fallDepth * Unit THEN CarReset(c) ELSE c

\* Car.update: out-of-bounds reset and the wall bounce
Bounds(c) ==
    LET c1 == IF c.position.y < -fallDepth * Unit THEN CarReset(c) ELSE c
        limX == (carStadiumWidth * Unit) \div 2 - (dimWidth * Unit) \div 2
        limZ == (carStadiumLength * Unit) \div 2 - (dimLength * Unit) \div 2
        hitX == Abs(c1.position.x) > limX
        hitZ == Abs(c1.position.z) > limZ
    IN  [c1 EXCEPT !.position =
                       Vec(IF hitX THEN Sign(@.x) * limX ELSE @.x,
                           @.y,
                           IF hitZ THEN Sign(@.z) * limZ ELSE @.z),
                   !.velocity =
                       Vec(IF hitX THEN Scale(@.x, -5, 10) ELSE @.x,
                           @.y,
                           IF hitZ THEN Scale(@.z, -5, 10) ELSE @.z)]

\* Car.update(deltaTime)
CarUpdate(c, dt) == Bounds(Timers(Integrate(HandleControls(c, dt), dt), dt))

\* Car.update(deltaTime) takes its out-of-bounds branch
FellThrough(c, dt) ==
    Timers(Integrate(HandleControls(c, dt), dt), dt).position.y < -fallDepth * Unit

-----------------------------------------------------------------------------
(* Harness for Stadium.checkGoal: one call on a ball position of a grid    *)
(* that holds every bound of both arenas, its neighbours one unit to       *)
(* either side, the centres of the depth bands and the arena centre.       *)

\* how many units to either side of each bound the grid reaches
GridReach == 1

Around(v) == { v + k * Unit : k \in -GridReach..GridReach }

Mirror(S) == S \cup { -v : v \in S }

GridX == {0} \cup Mirror(Around((goalWidth * Unit) \div 2)
                         \cup Around((goalWidthOld * Unit) \div 2))

GridY == {-Unit, 0} \cup Around(goalHeight * Unit) \cup Around(goalHeightOld * Unit)

GridZ == {0} \cup Mirror(Around((StadiumLength * Unit) \div 2)
                         \cup Around((StadiumLength * Unit) \div 2 + goalDepth * Unit)
                         \cup Around((StadiumLength * Unit) \div 2 + goalDepthOld * Unit)
                         \cup {(StadiumLength * Unit) \div 2 + (goalDepth * Unit) \div 2,
                               (StadiumLength * Unit) \div 2 + (goalDepthOld * Unit) \div 2})

GridPositions == { Vec(a, b, c) : a \in GridX, b \in GridY, c \in GridZ }

ArenaNames == {"current", "old"}

DimsOf(arena) == IF arena = "current" THEN GoalDims ELSE GoalDimsOld

NoProbe == [called |-> FALSE, arena |-> "current", pos |-> Vec(0, 0, 0),
            inBlue |-> FALSE, inOrange |-> FALSE, result |-> "none"]

\* checkGoal called on the drawn position; the two tests' outcomes are
\* recorded with the result
ProbeGoal ==
    /\ ~probe.called
    /\ probe' = [probe EXCEPT
                    !.called = TRUE,
                    !.inBlue = InBlueGoal(DimsOf(probe.arena), probe.pos),
                    !.inOrange = InOrangeGoal(DimsOf(probe.arena), probe.pos),
                    !.result = CheckGoalWith(DimsOf(probe.arena), probe.pos)]
    /\ UNCHANGED << gameVars, car, carLog, twin,
                    hit, limited >>

-----------------------------------------------------------------------------
(* Ball: the wrapper around the rigid body *)

\* Ball.reset's default position (0, 20, 0), in whole units
ballStartY == 20

BallStart == Vec(0, ballStartY * Unit, 0)

\* representatives of Ball.reset's random launch velocity
\* (random(-10, 10), random(5, 15), random(-10, 10))
LaunchVelocities == { Vec(-10 * Unit, 5 * Unit, -10 * Unit),
                      Vec(4 * Unit, 12 * Unit, -3 * Unit) }

\* Ball.reset() with no argument
BallReset(b, launch) ==
    [b EXCEPT !.bodyPos = BallStart, !.meshPos = BallStart, !.bodyVel = launch]

\* Ball.update(): the mesh follows the body; a ball below the floor is reset
BallUpdate(b, launch) ==
    IF b.bodyPos.y < -fallDepth * Unit
    THEN BallReset(b, launch)
    ELSE [b EXCEPT !.meshPos = b.bodyPos]

\* where the rigid-body world may have the ball after a step: in play, inside
\* the blue goal, inside the orange goal, below the floor
BodyStates ==
    { [pos |-> Vec(10 * Unit, 6 * Unit, 40 * Unit),
       vel |-> Vec(3 * Unit, -2 * Unit, 5 * Unit)],
      [pos |-> Vec(0, 10 * Unit,
                   -((StadiumLength * Unit) \div 2 + (goalDepth * Unit) \div 2)),
       vel |-> Vec(0, -Unit, -8 * Unit)],
      [pos |-> Vec(0, 10 * Unit,
                   (StadiumLength * Unit) \div 2 + (goalDepth * Unit) \div 2),
       vel |-> Vec(0, -Unit, 8 * Unit)],
      [pos |-> Vec(0, -(fallDepth + 10) * Unit, 0),
       vel |-> Vec(0, -30 * Unit, 0)] }

\* world.step(timeStep, limitedDelta, 3) as the ball body sees it: no elapsed
\* time integrates nothing; otherwise the engine moves the body to `to`
WorldStep(b, delta, to) ==
    IF delta = 0 THEN b
    ELSE [b EXCEPT !.bodyPos = to.pos, !.bodyVel = to.vel]

-----------------------------------------------------------------------------
(* Game: the opponent's controller *)

RECURSIVE IsqrtIn(_, _, _)
IsqrtIn(n, lo, hi) ==
    IF lo >= hi THEN lo
    ELSE LET mid == (lo + hi + 1) \div 2
         IN  IF mid * mid <= n THEN IsqrtIn(n, mid, hi)
             ELSE IsqrtIn(n, lo, mid - 1)

\* the integer square root
Isqrt(n) == IsqrtIn(n, 0, 30000)

\* Game.updateAI: the control snapshot chosen for the opponent.  Distances
\* are taken in tenths of a unit, the dot product in thousandths.
AIControls(c, ballPos) ==
    LET dx == Scale(ballPos.x - c.position.x, 1, 100)
        dy == Scale(ballPos.y - c.position.y, 1, 100)
        dz == Scale(ballPos.z - c.position.z, 1, 100)
        dist2 == dx * dx + dy * dy + dz * dz
        dist == Isqrt(dist2)
        f == ForwardDir(c.rotY)
        dotProduct == IF dist = 0 THEN 0
                      ELSE clamp(Scale(f.x * dx + f.z * dz, 1, dist), -1000, 1000)
        crossY == f.z * dx - f.x * dz
        isBallToLeft == dist # 0 /\ crossY > 0
        ahead == dotProduct > 500
        behind == ~ahead /\ dotProduct < -500
        \* angle > 0.2 and angle > 1.0, through cos(0.2) and cos(1.0)
        turn == dotProduct < 980
        sharp == dotProduct < 540
    IN  [forward |-> ahead,
         backward |-> behind,
         left |-> turn /\ isBallToLeft,
         right |-> turn /\ ~isBallToLeft,
         boost |-> ahead /\ dist2 > 300 * 300,
         jump |-> ahead /\ dist2 < 150 * 150 /\ ballPos.y > 5 * Unit,
         drift |-> turn /\ sharp]

-----------------------------------------------------------------------------
(* Car.handleBallCollision and Ball.applyImpulse *)

\* Ball.radius
ballRadius == 5

Add(u, v) == Vec(u.x + v.x, u.y + v.y, u.z + v.z)

Sub(u, v) == Vec(u.x - v.x, u.y - v.y, u.z - v.z)

\* the dot product of two vectors in thousandths, in thousandths
Dot(u, v) == Scale(u.x * v.x + u.y * v.y + u.z * v.z, 1, 1000)

\* THREE.Vector3.length(), for vectors shorter than 46 units
Length(v) == IsqrtIn(v.x * v.x + v.y * v.y + v.z * v.z, 0, 46340)

\* THREE.Vector3.multiplyScalar(k), k in thousandths
MultiplyScalar(v, k) ==
    Vec(Scale(v.x, k, 1000), Scale(v.y, k, 1000), Scale(v.z, k, 1000))

\* THREE.Vector3.normalize(): divideScalar(length() || 1), so the zero vector
\* stays the zero vector; the result is in thousandths
Normalize(v) ==
    LET len == Length(v)
    IN  IF len = 0 THEN v
        ELSE Vec(Scale(v.x, 1000, len), Scale(v.y, 1000, len),
                 Scale(v.z, 1000, len))

\* the vector Ball.applyImpulse hands to the body
Impulse(direction, force) == MultiplyScalar(Normalize(direction), force)

\* Ball.applyImpulse(direction, force): the body has mass 1, so its velocity
\* changes by the impulse (the spin the impulse adds is not modelled)
BallApplyImpulse(b, direction, force) ==
    [b EXCEPT !.bodyVel = Add(@, Impulse(direction, force))]

\* a force that ignores how directly the car hits
FinalForceNoBonus(impactForce, directness) == impactForce

\* finalForce = impactForce * (1 + directness * 0.5)
FinalForce(impactForce, directness) ==
    impactForce + Scale(impactForce, directness, 2000)

\* Car.handleBallCollision(ball): what the call returns, the car and the ball
\* it leaves, and the impulses it handed to the ball
HandleBallCollision(c, b) ==
    LET carRadius == Max(Max((dimWidth * Unit) \div 2, (dimHeight * Unit) \div 2),
                         (dimLength * Unit) \div 2)
        \* ball.position is the mesh position
        offset == Sub(b.meshPos, c.position)
        distance == Length(offset)
        normal == Normalize(offset)
        impactForce == Scale(Abs(c.speed), 3, 10)
        forwardDir == ForwardDir(c.rotY)
        directness == Abs(Dot(forwardDir, normal))
        finalForce == FinalForce(impactForce, directness)
        lifts == c.speed > 40 * Unit /\ directness > 800
        upForce == Min(Scale(c.speed, 1, 10), 5 * Unit)
        up == Vec(0, 1000, 0)
        b1 == BallApplyImpulse(b, normal, finalForce)
        b2 == IF lifts THEN BallApplyImpulse(b1, up, upForce) ELSE b1
        bounceStrength == Scale(finalForce, 5, 100)
    IN  IF distance < carRadius + ballRadius * Unit
        THEN [contact |-> TRUE,
              car |-> [c EXCEPT !.velocity =
                          Add(@, MultiplyScalar(normal, -bounceStrength))],
              ball |-> b2,
              distance |-> distance,
              directness |-> directness,
              finalForce |-> finalForce,
              impulse |-> Impulse(normal, finalForce),
              upImpulse |-> IF lifts THEN Impulse(up, upForce) ELSE Vec(0, 0, 0)]
        ELSE [contact |-> FALSE, car |-> c, ball |-> b,
              distance |-> distance, directness |-> 0, finalForce |-> 0,
              impulse |-> Vec(0, 0, 0), upImpulse |-> Vec(0, 0, 0)]

\* no call made yet, the ball lying at the position `at`
HitPending(at, vel) ==
    [called |-> FALSE,
     ball |-> [bodyPos |-> at, bodyVel |-> vel, meshPos |-> at],
     ballBefore |-> vel,
     carBefore |-> Vec(0, 0, 0),
     contact |-> FALSE, distance |-> 0, directness |-> 0, finalForce |-> 0,
     impulse |-> Vec(0, 0, 0), upImpulse |-> Vec(0, 0, 0)]

\* no handleBallCollision call made
NoHit == HitPending(BallStart, Vec(0, 0, 0))

-----------------------------------------------------------------------------
(* Car, the rate-limited variant (src/unnamed/part_002): a rigid body      *)
(* pushed by its controller, with a boost tank                             *)

\* the variant's mass
limitedMass == 10
\* the variant's maxSpeed
limitedMaxSpeed == 60
\* the variant's acceleration
limitedAcceleration == 600
\* the variant's braking
braking == 800
\* the variant's handling, 0.2, in thousandths
handling == 200
\* the variant's jumpForce
limitedJumpForce == 400
\* the variant's jumpCooldownTime, ms
limitedJumpCooldownTime == 500
\* the variant's full tank, boostAmount = 100
limitedBoostFull == 100
\* the variant's boostRechargeRate, per second
limitedBoostRechargeRate == 10
\* the variant's boostConsumptionRate, per second
boostConsumptionRate == 30

\* no update made yet
NoTick == [ticked |-> FALSE, dt |-> 0, boost |-> FALSE,
           before |-> limitedBoostFull * Unit, fell |-> FALSE]

\* the variant's car as its constructor and first reset leave it: the body
\* level and at rest, heading along its team's yaw
NewLimited ==
    [team |-> "blue",
     velocity |-> Vec(0, 0, 0),
     rotY |-> SpawnYaw("blue"),
     angularVelocityY |-> 0,
     boostAmount |-> limitedBoostFull * Unit,
     isBoosting |-> FALSE,
     canJump |-> TRUE,
     isJumping |-> FALSE,
     jumpCooldown |-> 0,
     controls |-> NoControls,
     ticks |-> 0,
     last |-> NoTick]

\* the variant's setControls: { ...this.controls, ...controls }
LimitedSetControls(c, partial) ==
    [c EXCEPT !.controls =
        [k \in Intents |-> IF k \in DOMAIN partial THEN partial[k] ELSE @[k]]]

\* handleControls, "Handle boost": boosting drains the tank, never below 0
HandleBoost(c, dt) ==
    LET boosts == c.controls.boost /\ c.boostAmount > 0
    IN  [c EXCEPT
            !.isBoosting = boosts,
            !.boostAmount =
                IF boosts
                THEN Max(0, @ - PerMs(boostConsumptionRate * Unit, dt))
                ELSE @]

\* THREE.Vector3.length() in hundredths, for vectors up to 460 units
LengthCoarse(v) ==
    10 * Length(Vec(Scale(v.x, 1, 10), Scale(v.y, 1, 10), Scale(v.z, 1, 10)))

\* handleControls, "Limit maximum speed": the speed measured is the length
\* of worldVelocity, the copy of the body's velocity (all three components)
\* taken when handleControls began; x and z of the body's velocity are scaled
\* by maxSpeed / currentSpeed, y is left alone
SpeedLimit(v, worldVelocity) ==
    LET currentSpeed == LengthCoarse(worldVelocity)
    IN  IF currentSpeed > limitedMaxSpeed * Unit
        THEN Vec(Scale(v.x, limitedMaxSpeed * 10, currentSpeed \div 100), v.y,
                 Scale(v.z, limitedMaxSpeed * 10, currentSpeed \div 100))
        ELSE v

\* the variant's handleControls(deltaTime) for a level body.  The forces
\* handed to body.applyForce (boost, lateral friction) act in the next
\* world.step and are not part of the velocity handleControls leaves.
LimitedHandleControls(c, dt) ==
    LET worldVelocity == c.velocity
        forwardDirection == ForwardDir(c.rotY)
        forwardForce == IF c.controls.forward THEN limitedAcceleration * Unit
                        ELSE IF c.controls.backward THEN -braking * Unit
                        ELSE 0
        v1 == Add(c.velocity, MultiplyScalar(forwardDirection, PerMs(forwardForce, dt)))
        turnForce == handling * (IF c.controls.drift THEN 5 ELSE 3)
        turn == IF c.controls.left THEN PerMs(turnForce * 30, dt)
                ELSE IF c.controls.right THEN PerMs(-turnForce * 30, dt)
                ELSE 0
        jumps == c.controls.jump /\ c.canJump /\ ~c.isJumping
        \* body.applyImpulse((0, jumpForce, 0)): the velocity gains impulse / mass
        v2 == IF jumps THEN Add(v1, Vec(0, (limitedJumpForce * Unit) \div limitedMass, 0))
              ELSE v1
        c1 == HandleBoost(c, dt)
    IN  [c1 EXCEPT !.velocity = SpeedLimit(v2, worldVelocity),
                   !.angularVelocityY = @ + turn,
                   !.isJumping = IF jumps THEN TRUE
                                 ELSE IF ~c.controls.jump THEN FALSE ELSE @,
                   !.canJump = IF jumps THEN FALSE ELSE @,
                   !.jumpCooldown = IF jumps THEN limitedJumpCooldownTime ELSE @]

\* a recharge that does not stop at a full tank
RechargeBoostNoCap(c, dt) ==
    IF ~c.isBoosting /\ c.boostAmount < limitedBoostFull * Unit
    THEN [c EXCEPT !.boostAmount = @ + PerMs(limitedBoostRechargeRate * Unit, dt)]
    ELSE c

\* update, "Recharge boost": only while not boosting, never above 100
RechargeBoost(c, dt) ==
    IF ~c.isBoosting /\ c.boostAmount < limitedBoostFull * Unit
    THEN [c EXCEPT !.boostAmount =
             Min(limitedBoostFull * Unit,
                 @ + PerMs(limitedBoostRechargeRate * Unit, dt))]
    ELSE c

\* update, "Update jump cooldown"; `grounded` is what isOnGround() returns
LimitedCooldown(c, dt, grounded) ==
    IF c.jumpCooldown > 0 THEN [c EXCEPT !.jumpCooldown = @ - dt]
    ELSE IF ~c.canJump /\ grounded THEN [c EXCEPT !.canJump = TRUE]
    ELSE c

\* the variant's reset(): the body at rest on its spawn heading, the tank
\* refilled, the jump state and the intents cleared; isBoosting is left as
\* it was
LimitedReset(c) ==
    [c EXCEPT !.velocity = Vec(0, 0, 0),
              !.rotY = SpawnYaw(c.team),
              !.angularVelocityY = 0,
              !.boostAmount = limitedBoostFull * Unit,
              !.canJump = TRUE,
              !.isJumping = FALSE,
              !.jumpCooldown = 0,
              !.controls = NoControls]

\* the variant's update(deltaTime); `fell` says the rigid-body world has the
\* car's body below y = -50, `grounded` that the ray cast below it hits
LimitedUpdate(c, dt, fell, grounded) ==
    LET c1 == LimitedHandleControls(c, dt)
        c2 == RechargeBoost(LimitedCooldown(c1, dt, grounded), dt)
        c3 == IF fell THEN LimitedReset(c2) ELSE c2
    IN  [c3 EXCEPT !.ticks = c.ticks + 1,
                   !.last = [ticked |-> TRUE, dt |-> dt,
                             boost |-> c.controls.boost,
                             before |-> c.boostAmount, fell |-> fell]]

-----------------------------------------------------------------------------
(* Game and the frame driver *)

\* Game.gameTime, 5 * 60 seconds
gameTime == 300
\* the countdown's length, Game.startCountdown
countdownStart == 3
\* the cap on a frame's delta, 0.1 s, in ms
maxDelta == 100

\* the keys handleKeyDown and handleKeyUp bind to an intent
KeyIntent == [w |-> "forward", s |-> "backward", a |-> "left", d |-> "right",
              space |-> "jump", shift |-> "boost", control |-> "drift"]

DrivingKeys == DOMAIN KeyIntent

\* every key the handlers switch on, and one they do not
AllKeys == DrivingKeys \cup {"c", "p", "r", "x"}

\* an update gate that forgets the pause
UpdateGateNoPause(paused, counting, over) == ~counting /\ ~over

\* Game.update: the match is ticked only when not paused, counting down or over
UpdateGate(paused, counting, over) == ~paused /\ ~counting /\ ~over

\* an early return that lets keys through during a countdown
InactiveButCounting == isPaused \/ isGameOver

\* Game.handleKeyDown, Game.updateTimer: the early return
Inactive == isPaused \/ isGameOver \/ isCountingDown

\* the steps of one frame, in the order animate and Game.update run them
FrameSteps(active) ==
    IF active
    THEN << "world.step", "ball.update", "playerCar.update",
            "opponentCar.update", "stadium.update", "updateAI", "checkGoal",
            "updateTimer", "updateCamera", "render" >>
    ELSE << "world.step", "updateCamera", "render" >>

\* a timer that is over at 0 without stopping there
UpdateTimerNoFloor(remaining, delta) ==
    [timeRemaining |-> remaining - delta, isGameOver |-> remaining - delta <= 0]

\* Game.updateTimer past its early return: the clock runs down to 0, where
\* it stops and the match is over
UpdateTimer(remaining, delta) ==
    LET t1 == remaining - delta
    IN  [timeRemaining |-> IF t1 <= 0 THEN 0 ELSE t1, isGameOver |-> t1 <= 0]

\* animate(time): one frame.  `to` is where the rigid-body world takes the
\* ball, `launch` the random velocity of a ball reset in this frame.
Animate(time, to, launch) ==
    LET deltaTime == time - lastTime
        limitedDelta == Min(deltaTime, maxDelta)
        \* world.step(timeStep, limitedDelta, 3)
        b0 == WorldStep(ball, limitedDelta, to)
        \* game.update(limitedDelta)
        active == UpdateGate(isPaused, isCountingDown, isGameOver)
        b1 == BallUpdate(b0, launch)
        p1 == CarUpdate(playerCar, limitedDelta)
        o1 == CarUpdate(opponentCar, limitedDelta)
        \* updateAI
        ai == AIControls(o1, b1.meshPos)
        o2 == SetControls(o1, ai)
        audio1 == IF ai.boost /\ ~aiWasBoosting THEN TRUE
                  ELSE IF ~ai.boost /\ aiWasBoosting THEN FALSE
                  ELSE boostPlaying
        \* checkGoal
        scoringTeam == checkGoal(b1.meshPos)
        goal == scoringTeam # "none"
        \* updateTimer, which returns early once a goal has started a countdown
        timer == UpdateTimer(timeRemaining, limitedDelta)
    IN  /\ lastTime' = time
        /\ frames' = frames + 1
        /\ tickLog' = [paused |-> isPaused, counting |-> isCountingDown,
                       over |-> isGameOver,
                       active |-> active, steps |-> FrameSteps(active),
                       ballAt |-> IF active THEN b1.meshPos ELSE b0.meshPos,
                       delta |-> limitedDelta]
        /\ UNCHANGED << isPaused, probe, car, carLog, twin,
                    hit, limited >>
        /\ IF ~active
           THEN /\ ball' = b0
                /\ UNCHANGED << score, timeRemaining, isGameOver, countdownTime,
                                isCountingDown, aiWasBoosting, pendingIntervals,
                                boostPlaying, playerCar, opponentCar >>
           ELSE IF goal
           THEN \* score, then resetRound: resetPositions and startCountdown
                /\ score' = [score EXCEPT ![scoringTeam] = @ + 1]
                /\ ball' = BallReset(b1, launch)
                /\ playerCar' = CarReset(p1)
                /\ opponentCar' = CarReset(o2)
                /\ aiWasBoosting' = FALSE
                /\ boostPlaying' = audio1
                /\ isCountingDown' = TRUE
                /\ countdownTime' = countdownStart
                /\ pendingIntervals' = pendingIntervals + 1
                /\ UNCHANGED << timeRemaining, isGameOver >>
           ELSE /\ ball' = b1
                /\ playerCar' = p1
                /\ opponentCar' = o2
                /\ aiWasBoosting' = ai.boost
                /\ boostPlaying' = audio1
                /\ timeRemaining' = timer.timeRemaining
                /\ isGameOver' = timer.isGameOver
                /\ UNCHANGED << score, countdownTime, isCountingDown,
                                pendingIntervals >>

\* Game.handleKeyDown(event), event.key lower-cased to `key`
HandleKeyDown(key, launch) ==
    /\ UNCHANGED << timeRemaining, isGameOver, score, lastTime, tickLog, frames,
                    probe, car, carLog, twin,
                    hit, limited >>
    /\ IF Inactive
       THEN UNCHANGED << isPaused, countdownTime, isCountingDown, aiWasBoosting,
                         pendingIntervals, boostPlaying, ball, playerCar,
                         opponentCar >>
       ELSE IF key \in DrivingKeys
       THEN /\ playerCar' = SetControls(playerCar, [k \in {KeyIntent[key]} |-> TRUE])
            /\ boostPlaying' = IF key = "shift" THEN TRUE ELSE boostPlaying
            /\ UNCHANGED << isPaused, countdownTime, isCountingDown,
                            aiWasBoosting, pendingIntervals, ball, opponentCar >>
       ELSE IF key = "p"
       THEN \* togglePause
            /\ isPaused' = ~isPaused
            /\ UNCHANGED << countdownTime, isCountingDown, aiWasBoosting,
                            pendingIntervals, boostPlaying, ball, playerCar,
                            opponentCar >>
       ELSE IF key = "r"
       THEN \* resetRound: resetPositions and startCountdown
            /\ ball' = BallReset(ball, launch)
            /\ playerCar' = CarReset(playerCar)
            /\ opponentCar' = CarReset(opponentCar)
            /\ aiWasBoosting' = FALSE
            /\ isCountingDown' = TRUE
            /\ countdownTime' = countdownStart
            /\ pendingIntervals' = pendingIntervals + 1
            /\ UNCHANGED << isPaused, boostPlaying >>
       ELSE UNCHANGED << isPaused, countdownTime, isCountingDown, aiWasBoosting,
                         pendingIntervals, boostPlaying, ball, playerCar,
                         opponentCar >>

\* Game.handleKeyUp(event)
HandleKeyUp(key) ==
    /\ IF key \in DrivingKeys
       THEN /\ playerCar' = SetControls(playerCar, [k \in {KeyIntent[key]} |-> FALSE])
            /\ boostPlaying' = IF key = "shift" THEN FALSE ELSE boostPlaying
       ELSE UNCHANGED << playerCar, boostPlaying >>
    /\ UNCHANGED << score, timeRemaining, isGameOver, isPaused, countdownTime,
                    isCountingDown, aiWasBoosting, pendingIntervals, lastTime,
                    ball, opponentCar, tickLog, frames, probe, car, carLog, twin,
                    hit, limited >>

\* a countdown that ends one firing late
CountdownOverLate(t) == t < 0

\* the interval callback: the countdown is over, and the interval cleared,
\* when countdownTime has come down to 0
CountdownOver(t) == t <= 0

\* the callback startCountdown gives to setInterval
CountdownTick ==
    /\ pendingIntervals > 0
    /\ countdownTime' = countdownTime - 1
    /\ IF CountdownOver(countdownTime - 1)
       THEN /\ pendingIntervals' = pendingIntervals - 1
            /\ isCountingDown' = FALSE
       ELSE UNCHANGED << pendingIntervals, isCountingDown >>
    /\ UNCHANGED << score, timeRemaining, isGameOver, isPaused, aiWasBoosting,
                    boostPlaying, lastTime, ball, playerCar, opponentCar,
                    tickLog, frames, probe, car, carLog, twin,
                    hit, limited >>

-----------------------------------------------------------------------------
(* The match: frames, key events and countdown timers interleaved *)

\* frames a run may take
MaxFrames == 3

\* a match drawn late: the clock's remaining time at the start of a run, ms
LateTime == 40

\* the time between two frames: a regular frame and a stalled one, ms
FrameGaps == {50, 250}

\* the keys pressed in a run of the match
MatchKeys == {"w", "shift", "p", "r", "x"}

\* the state Game's constructor leaves: init has reset the positions and
\* started the first countdown
GameAt(clock, launch) ==
    /\ score = [blue |-> 0, orange |-> 0]
    /\ timeRemaining = clock
    /\ isGameOver = FALSE
    /\ isPaused = FALSE
    /\ countdownTime = countdownStart
    /\ isCountingDown = TRUE
    /\ aiWasBoosting = FALSE
    /\ pendingIntervals = 1
    /\ boostPlaying = FALSE
    /\ lastTime = 0
    /\ ball = [bodyPos |-> BallStart, bodyVel |-> launch, meshPos |-> BallStart]
    /\ playerCar = NewCar("blue")
    /\ opponentCar = NewCar("orange")
    /\ tickLog = [paused |-> FALSE, counting |-> FALSE, over |-> FALSE,
                  active |-> FALSE, steps |-> << >>, ballAt |-> BallStart,
                  delta |-> 0]
    /\ frames = 0

\* a new match, and the same state late in a match, as a round reset leaves it
GameInit ==
    \E clock \in {gameTime * 1000, LateTime}, launch \in LaunchVelocities :
        GameAt(clock, launch)

\* the match at rest while a harness runs
GameIdle == GameAt(gameTime * 1000, Vec(-10 * Unit, 5 * Unit, -10 * Unit))

-----------------------------------------------------------------------------
(* Harness for Car: the methods called directly, from the states a car can *)
(* be in between two calls                                                 *)

\* calls a run of the harness makes
MaxCalls == 2

\* the shortest positive frame delta of the harnesses, ms
MinDelta == 50

\* frame deltas handed to update, ms
Deltas == {0, MinDelta, maxDelta}

EmptyPartial == [k \in {} |-> TRUE]

\* arguments of setControls: one intent set or cleared (the key handlers),
\* nothing, two intents, and full snapshots (updateAI)
Partials ==
    { [k \in {i} |-> v] : i \in Intents, v \in BOOLEAN }
    \cup { EmptyPartial,
           [k \in {"left", "right"} |-> k = "left"],
           NoControls,
           [k \in Intents |-> k \in {"forward", "boost"}] }

\* scalar speeds a car can have between two calls
StartSpeeds == { -Scale(maxSpeed * Unit, 6, 10), -7 * Unit, 0, 50,
                 33 * Unit, maxSpeed * Unit, Scale(maxSpeed * Unit, 15, 10) }

\* control snapshots a car can hold between two calls
StartControls ==
    { NoControls,
      [k \in Intents |-> k = "forward"],
      [k \in Intents |-> k = "backward"],
      [k \in Intents |-> k \in {"forward", "boost", "jump"}],
      [k \in Intents |-> k \in {"right", "drift"}] }

\* a car mid-match: on the ground or in the air after a jump, at the given speed
CarAt(team, speed, airborne, controls) ==
    LET f == ForwardDir(SpawnYaw(team))
        moving == Abs(speed) > Unit \div 10
    IN  [NewCar(team) EXCEPT
            !.speed = speed,
            !.isBoosting = speed > maxSpeed * Unit,
            !.velocity = Vec(IF moving THEN Scale(f.x, speed, 1000) ELSE 0,
                             IF airborne THEN 4 * Unit ELSE 0,
                             IF moving THEN Scale(f.z, speed, 1000) ELSE 0),
            !.position = Vec(@.x, IF airborne THEN groundLevel + 2 * Unit ELSE @.y, @.z),
            !.isOnGround = ~airborne,
            !.canJump = ~airborne,
            !.isJumping = airborne /\ controls.jump,
            !.jumpCooldown = IF airborne THEN jumpCooldownTime - 2 * MinDelta ELSE 0,
            !.boostAmount = IF airborne THEN (boostFull - 1) * Unit ELSE @,
            !.controls = controls]

CarStarts == { CarAt(t, v, a, k) :
                 t \in Teams, v \in StartSpeeds, a \in BOOLEAN, k \in StartControls }

\* what handleControls leaves of the vertical velocity and the jump state,
\* before the rest of update runs
AfterControls(c) ==
    [vy |-> c.velocity.y, isOnGround |-> c.isOnGround, canJump |-> c.canJump,
     isJumping |-> c.isJumping, jumpCooldown |-> c.jumpCooldown]

NoCall == [op |-> "none", dt |-> 0, partial |-> EmptyPartial, calls |-> 0,
           noIntents |-> FALSE, prevSpeed |-> 0, ticks |-> 0, step |-> 0,
           elapsed |-> 0, jumps |-> 0, sinceJump |-> -1,
           ctl |-> AfterControls(NewCar("blue")), fell |-> FALSE]

\* the no-input updates of at least MinDelta that bring any speed to rest:
\* the first leaves at most maxSpeed, each later one takes off
\* deceleration * MinDelta
BrakeBound ==
    LET step == PerMs(deceleration * Unit, MinDelta)
    IN  1 + (maxSpeed * Unit + step - 1) \div step

\* updates a coasting run makes after those
SettleCalls == 1

\* the updates of a coasting run
MaxIdle == BrakeBound + SettleCalls

\* the call is an update whose handleControls gives the jump impulse:
\* canJump is cleared nowhere else
JumpNow(op, dt) ==
    op = "update" /\ car.canJump /\ ~HandleControls(car, dt).canJump

\* the record of a call: what was called with what, whether the car held no
\* intent, the speed before, how many no-input updates have run in a row,
\* the delta a coasting run repeats, the deltas handed to update so far,
\* the jump impulses so far, the deltas handed to update since the update
\* of the last impulse (that update's included, -1 before the first impulse,
\* counted up to twice the cooldown), and what the handleControls of an
\* update left
Called(op, dt, partial) ==
    [op |-> op, dt |-> dt, partial |-> partial,
     calls |-> carLog.calls + 1,
     noIntents |-> car.controls = NoControls,
     prevSpeed |-> car.speed,
     ticks |-> IF op = "update" /\ car.controls = NoControls
               THEN carLog.ticks + 1 ELSE 0,
     step |-> carLog.step,
     elapsed |-> carLog.elapsed + dt,
     jumps |-> IF JumpNow(op, dt) THEN carLog.jumps + 1 ELSE carLog.jumps,
     sinceJump |-> IF JumpNow(op, dt) THEN dt
                   ELSE IF op = "update" /\ carLog.sinceJump >= 0
                   THEN Min(carLog.sinceJump + dt, 2 * jumpCooldownTime)
                   ELSE carLog.sinceJump,
     ctl |-> AfterControls(IF op = "update" THEN HandleControls(car, dt) ELSE car),
     fell |-> op = "update" /\ FellThrough(car, dt)]

\* car.setControls(partial)
CallSetControls(partial) ==
    /\ car' = SetControls(car, partial)
    /\ carLog' = Called("setControls", 0, partial)
    /\ UNCHANGED << gameVars, probe, twin, hit, limited >>

\* car.update(dt)
CallUpdate(dt) ==
    /\ car' = CarUpdate(car, dt)
    /\ carLog' = Called("update", dt, EmptyPartial)
    /\ UNCHANGED << gameVars, probe, twin, hit, limited >>

\* car.reset()
CallReset ==
    /\ car' = CarReset(car)
    /\ carLog' = Called("reset", 0, EmptyPartial)
    /\ UNCHANGED << gameVars, probe, twin, hit, limited >>

CarInit ==
    /\ GameIdle
    /\ probe = NoProbe
    /\ car \in CarStarts
    /\ carLog = NoCall
    /\ twin = NewCar("blue")
    /\ hit = NoHit
    /\ limited = NewLimited

CarSetControls == carLog.calls < MaxCalls /\ \E partial \in Partials : CallSetControls(partial)

CarTick == carLog.calls < MaxCalls /\ \E dt \in Deltas : CallUpdate(dt)

CarResetCall == carLog.calls < MaxCalls /\ CallReset

CarNext == CarSetControls \/ CarTick \/ CarResetCall

\* the car's methods called in any order
CarSpec == CarInit /\ [][CarNext]_vars

\* a car that holds no intent, coasting, and the delta of the run
BrakeInit ==
    /\ GameIdle
    /\ probe = NoProbe
    /\ car \in { c \in CarStarts : c.controls = NoControls }
    /\ \E dt \in Deltas : carLog = [NoCall EXCEPT !.step = dt]
    /\ twin = NewCar("blue")
    /\ hit = NoHit
    /\ limited = NewLimited

BrakeTick == carLog.calls < MaxIdle /\ CallUpdate(carLog.step)

BrakeNext == BrakeTick

\* update called again and again, with one delta, on a car that holds no intent
BrakeSpec == BrakeInit /\ [][BrakeNext]_vars

-----------------------------------------------------------------------------
(* Two copies of a car, one boosting, updated with the same deltas *)

\* updates a paired run makes
MaxPairTicks == 5

\* the same car twice: `car` holds forward and boost, `twin` forward only
PairInit ==
    /\ GameIdle
    /\ probe = NoProbe
    /\ carLog = NoCall
    /\ hit = NoHit
    /\ limited = NewLimited
    /\ \E c \in { s \in CarStarts : s.controls = NoControls } :
          /\ car = SetControls(c, [k \in {"forward", "boost"} |-> TRUE])
          /\ twin = SetControls(c, [k \in {"forward"} |-> TRUE])

\* car.update(dt) and twin.update(dt)
PairTick ==
    /\ carLog.calls < MaxPairTicks
    /\ \E dt \in Deltas :
          /\ car' = CarUpdate(car, dt)
          /\ twin' = CarUpdate(twin, dt)
          /\ carLog' = Called("update", dt, EmptyPartial)
    /\ UNCHANGED << gameVars, probe, hit, limited >>

PairNext == PairTick

PairSpec == PairInit /\ [][PairNext]_vars

-----------------------------------------------------------------------------
(* A car at rest accelerating for two seconds *)

\* the time of the run, ms
AccelTime == 2 * 1000

\* the deltas of the run's updates, ms: positive, at most maxDelta
AccelDeltas == {MinDelta, maxDelta}

\* a new car, on the ground at rest, holding forward
AccelInit ==
    /\ GameIdle
    /\ probe = NoProbe
    /\ carLog = NoCall
    /\ twin = NewCar("blue")
    /\ hit = NoHit
    /\ limited = NewLimited
    /\ \E team \in Teams :
          car = SetControls(NewCar(team), [k \in {"forward"} |-> TRUE])

AccelTick ==
    \E dt \in AccelDeltas :
        /\ carLog.elapsed + dt <= AccelTime
        /\ CallUpdate(dt)

AccelNext == AccelTick

\* update called with deltas that sum to at most AccelTime
AccelSpec == AccelInit /\ [][AccelNext]_vars

-----------------------------------------------------------------------------
(* A car whose jump key is pressed, held and released between updates *)

\* calls a jumping run makes
MaxJumpCalls == 13

\* a new car on the ground, the jump intent set or not
JumpInit ==
    /\ GameIdle
    /\ probe = NoProbe
    /\ carLog = NoCall
    /\ twin = NewCar("blue")
    /\ hit = NoHit
    /\ limited = NewLimited
    /\ \E held \in BOOLEAN :
          car = SetControls(NewCar("blue"), [k \in {"jump"} |-> held])

\* setControls({jump: pressed})
JumpKey ==
    /\ carLog.calls < MaxJumpCalls
    /\ \E pressed \in BOOLEAN : CallSetControls([k \in {"jump"} |-> pressed])

JumpTick == carLog.calls < MaxJumpCalls /\ \E dt \in Deltas : CallUpdate(dt)

JumpNext == JumpKey \/ JumpTick

JumpSpec == JumpInit /\ [][JumpNext]_vars

-----------------------------------------------------------------------------
(* A car and a ball brought together: one handleBallCollision call *)

\* the speeds of the car that meets the ball
HitSpeeds == { -Scale(maxSpeed * Unit, 6, 10), -7 * Unit, 0, 33 * Unit,
               maxSpeed * Unit }

HitCars == { CarAt(t, v, FALSE, NoControls) : t \in Teams, v \in HitSpeeds }

\* where the ball's centre is, from the car's centre: on it, straight ahead
\* and behind, abeam, oblique, raised, and at and past the contact distance
HitOffsets ==
    { Vec(0, 0, 0), Vec(0, 0, 8 * Unit), Vec(0, 0, -8 * Unit),
      Vec(8 * Unit, 0, 0), Vec(6 * Unit, 0, 8 * Unit), Vec(8 * Unit, 0, 6 * Unit),
      Vec(-6 * Unit, 0, -8 * Unit), Vec(0, 6 * Unit, 8 * Unit),
      Vec(0, 3 * Unit, 8 * Unit), Vec(0, 8 * Unit, 0),
      Vec(0, 0, 11 * Unit), Vec(0, 0, 12 * Unit) }

\* the ball's velocity before the call
HitVelocities == { Vec(0, 0, 0), Vec(3 * Unit, -2 * Unit, 5 * Unit) }

HitInit ==
    /\ GameIdle
    /\ probe = NoProbe
    /\ carLog = NoCall
    /\ twin = NewCar("blue")
    /\ limited = NewLimited
    /\ car \in HitCars
    /\ \E offset \in HitOffsets, vel \in HitVelocities :
          hit = HitPending(Add(car.position, offset), vel)

\* car.handleBallCollision(ball)
HitBall ==
    /\ ~hit.called
    /\ LET r == HandleBallCollision(car, hit.ball)
       IN  /\ car' = r.car
           /\ hit' = [called |-> TRUE, ball |-> r.ball,
                      ballBefore |-> hit.ball.bodyVel,
                      carBefore |-> car.velocity,
                      contact |-> r.contact, distance |-> r.distance,
                      directness |-> r.directness, finalForce |-> r.finalForce,
                      impulse |-> r.impulse, upImpulse |-> r.upImpulse]
    /\ UNCHANGED << gameVars, probe, carLog, twin, limited >>

HitNext == HitBall

HitSpec == HitInit /\ [][HitNext]_vars

-----------------------------------------------------------------------------
(* The rate-limited car: intents set and updates made in any order *)

\* updates a run of the rate-limited car makes
MaxLimitedTicks == 3

\* the tank at the start of a run: empty, nearly empty, half full, full
LimitedStarts == { 0, Unit, (limitedBoostFull * Unit) \div 2,
                   limitedBoostFull * Unit }

\* the deltas of the updates: those of a frame and one of several seconds
LimitedDeltas == Deltas \cup { 40 * maxDelta }

LimitedInit ==
    /\ GameIdle
    /\ probe = NoProbe
    /\ car = NewCar("blue")
    /\ carLog = NoCall
    /\ twin = NewCar("blue")
    /\ hit = NoHit
    /\ \E a \in LimitedStarts : limited = [NewLimited EXCEPT !.boostAmount = a]

\* setControls({ boost: v }), setControls({ jump: v })
LimitedKey ==
    /\ limited.ticks < MaxLimitedTicks
    /\ \E i \in {"boost", "jump"}, v \in BOOLEAN :
          limited' = LimitedSetControls(limited, [k \in {i} |-> v])
    /\ UNCHANGED << gameVars, probe, car, carLog, twin, hit >>

\* update(dt), the body fallen below the floor or not, on the ground or not
LimitedTick ==
    /\ limited.ticks < MaxLimitedTicks
    /\ \E dt \in LimitedDeltas, fell \in BOOLEAN, grounded \in BOOLEAN :
          limited' = LimitedUpdate(limited, dt, fell, grounded)
    /\ UNCHANGED << gameVars, probe, car, carLog, twin, hit >>

LimitedNext == LimitedKey \/ LimitedTick

LimitedSpec == LimitedInit /\ [][LimitedNext]_vars

-----------------------------------------------------------------------------
(* The rate-limited car: handleControls called on a moving body *)

\* handleControls calls a run makes
MaxForceCalls == 2

\* velocities of the body whose horizontal part is no longer than maxSpeed:
\* at rest, slow, at maxSpeed along z and across the axes, falling, rising
ForceVelocities ==
    { Vec(0, 0, 0), Vec(3 * Unit, 0, 4 * Unit),
      Vec(0, 0, limitedMaxSpeed * Unit), Vec(0, 0, -limitedMaxSpeed * Unit),
      Vec(36 * Unit, 0, 48 * Unit),
      Vec(0, -80 * Unit, 30 * Unit), Vec(0, 40 * Unit, 50 * Unit) }

\* the intents held during the calls
ForceControls ==
    { NoControls,
      [k \in Intents |-> k = "forward"],
      [k \in Intents |-> k = "backward"],
      [k \in Intents |-> k \in {"forward", "boost", "jump"}],
      [k \in Intents |-> k \in {"left", "drift"}],
      [k \in Intents |-> k \in {"forward", "right"}] }

ForceInit ==
    /\ GameIdle
    /\ probe = NoProbe
    /\ car = NewCar("blue")
    /\ carLog = NoCall
    /\ twin = NewCar("blue")
    /\ hit = NoHit
    /\ \E t \in Teams, v \in ForceVelocities, k \in ForceControls :
          limited = [NewLimited EXCEPT !.team = t, !.rotY = SpawnYaw(t),
                                       !.velocity = v, !.controls = k]

\* handleControls(dt)
ForceCall ==
    /\ limited.ticks < MaxForceCalls
    /\ \E dt \in Deltas :
          limited' = [LimitedHandleControls(limited, dt) EXCEPT
                         !.ticks = limited.ticks + 1]
    /\ UNCHANGED << gameVars, probe, car, carLog, twin, hit >>

ForceNext == ForceCall

ForceSpec == ForceInit /\ [][ForceNext]_vars

-----------------------------------------------------------------------------
(* Two copies of a car whose left and right keys go down in opposite order *)

\* updates a run of the two steering cars makes
MaxSteerTicks == 2

SteerInit ==
    /\ GameIdle
    /\ probe = NoProbe
    /\ carLog = NoCall
    /\ hit = NoHit
    /\ limited = NewLimited
    /\ car \in { c \in CarStarts : c.controls = NoControls }
    /\ twin = car

\* handleKeyDown: 'a' on one copy, 'd' on the other
SteerFirst ==
    /\ carLog.calls = 0
    /\ car' = SetControls(car, [k \in {"left"} |-> TRUE])
    /\ twin' = SetControls(twin, [k \in {"right"} |-> TRUE])
    /\ carLog' = Called("setControls", 0, [k \in {"left"} |-> TRUE])
    /\ UNCHANGED << gameVars, probe, hit, limited >>

\* handleKeyDown: the other key of each copy, the first still held
SteerSecond ==
    /\ carLog.calls = 1
    /\ car' = SetControls(car, [k \in {"right"} |-> TRUE])
    /\ twin' = SetControls(twin, [k \in {"left"} |-> TRUE])
    /\ carLog' = Called("setControls", 0, [k \in {"right"} |-> TRUE])
    /\ UNCHANGED << gameVars, probe, hit, limited >>

\* update(dt) on both copies
SteerTick ==
    /\ carLog.calls >= 2
    /\ carLog.calls < 2 + MaxSteerTicks
    /\ \E dt \in Deltas :
          /\ car' = CarUpdate(car, dt)
          /\ twin' = CarUpdate(twin, dt)
          /\ carLog' = Called("update", dt, EmptyPartial)
    /\ UNCHANGED << gameVars, probe, hit, limited >>

SteerNext == SteerFirst \/ SteerSecond \/ SteerTick

SteerSpec == SteerInit /\ [][SteerNext]_vars

-----------------------------------------------------------------------------
(* A car anywhere on the pitch, up to the walls, updated *)

\* updates a run of the car by the walls makes
MaxWallTicks == 2

\* the half extents of the pitch a car's centre can reach
WallX == (carStadiumWidth * Unit) \div 2 - (dimWidth * Unit) \div 2

WallZ == (carStadiumLength * Unit) \div 2 - (dimLength * Unit) \div 2

\* where on the pitch the car is: at a wall, a step from it, in a corner,
\* at the centre
WallSpots ==
    { Vec(WallX, 0, 0), Vec(-WallX, 0, 0), Vec(WallX - Unit, 0, 10 * Unit),
      Vec(0, 0, WallZ), Vec(0, 0, -WallZ), Vec(-10 * Unit, 0, -WallZ + Unit),
      Vec(WallX, 0, WallZ), Vec(0, 0, 0) }

\* headings along and across the pitch
WallYaws == { 0, PiMilli \div 2, PiMilli, PiMilli + PiMilli \div 2 }

WallSpeeds == { -Scale(maxSpeed * Unit, 6, 10), 0, maxSpeed * Unit,
                Scale(maxSpeed * Unit, 15, 10) }

\* a car mid-match at the spot, on the ground or falling just above it
WallCar(spot, yaw, speed, airborne, controls) ==
    LET f == ForwardDir(yaw)
        c == CarAt("blue", speed, airborne, controls)
    IN  [c EXCEPT !.position = Vec(spot.x,
                                   IF airborne THEN groundLevel + Unit \div 5
                                   ELSE groundLevel,
                                   spot.z),
                  !.rotY = yaw,
                  !.velocity = Vec(Scale(f.x, speed, 1000),
                                   IF airborne THEN -4 * Unit ELSE 0,
                                   Scale(f.z, speed, 1000))]

WallInit ==
    /\ GameIdle
    /\ probe = NoProbe
    /\ carLog = NoCall
    /\ twin = NewCar("blue")
    /\ hit = NoHit
    /\ limited = NewLimited
    /\ \E spot \in WallSpots, yaw \in WallYaws, speed \in WallSpeeds,
          airborne \in BOOLEAN,
          controls \in { NoControls, [k \in Intents |-> k \in {"forward", "boost"}],
                         [k \in Intents |-> k = "backward"] } :
          car = WallCar(spot, yaw, speed, airborne, controls)

WallTick == carLog.calls < MaxWallTicks /\ \E dt \in Deltas : CallUpdate(dt)

WallNext == WallTick

WallSpec == WallInit /\ [][WallNext]_vars

-----------------------------------------------------------------------------
(* Stadium.checkGoal called on the positions of the grid *)

GoalInit ==
    /\ GameIdle
    /\ \E arena \in ArenaNames, p \in GridPositions :
          probe = [NoProbe EXCEPT !.arena = arena, !.pos = p]
    /\ car = NewCar("blue")
    /\ carLog = NoCall
    /\ twin = NewCar("blue")
    /\ hit = NoHit
    /\ limited = NewLimited

GoalNext == ProbeGoal

GoalSpec == GoalInit /\ [][GoalNext]_vars

-----------------------------------------------------------------------------
(* The match as a whole *)

\* the harness variables at rest
HarnessIdle ==
    /\ probe = NoProbe
    /\ car = NewCar("blue")
    /\ carLog = NoCall
    /\ twin = NewCar("blue")
    /\ hit = NoHit
    /\ limited = NewLimited

Init == GameInit /\ HarnessIdle

Frame ==
    /\ frames < MaxFrames
    /\ \E time \in (IF frames = 0 THEN {0} ELSE { lastTime + g : g \in FrameGaps }),
          to \in BodyStates, launch \in LaunchVelocities :
          Animate(time, to, launch)

\* only resetRound, on 'r', launches the ball
KeyDown ==
    \E key \in MatchKeys :
        \E launch \in (IF key = "r" THEN LaunchVelocities
                       ELSE {CHOOSE v \in LaunchVelocities : TRUE}) :
            HandleKeyDown(key, launch)

KeyUp == \E key \in MatchKeys : HandleKeyUp(key)

Next == Frame \/ KeyDown \/ KeyUp \/ CountdownTick

Spec == Init /\ [][Next]_vars

-----------------------------------------------------------------------------
(* The frame driver called with any timestamps *)

\* frames a run with free timestamps may take
MaxClockFrames == 3

\* the timestamps animate is called with, ms: in any order, so that a frame
\* can come a regular gap or a stall after the one before, at the same
\* time, or earlier
Timestamps == {0, 50, 100, 400}

\* animate(time); the first call is animate(), time = 0
ClockFrame ==
    /\ frames < MaxClockFrames
    /\ \E time \in (IF frames = 0 THEN {0} ELSE Timestamps),
          to \in BodyStates, launch \in LaunchVelocities :
          Animate(time, to, launch)

ClockNext == ClockFrame \/ CountdownTick

ClockSpec == Init /\ [][ClockNext]_vars

-----------------------------------------------------------------------------
(* Properties *)

\* the frame being taken is a frame of a match that is neither paused,
\* counting down nor over
ActiveFrame ==
    /\ frames' = frames + 1
    /\ ~isPaused /\ ~isCountingDown /\ ~isGameOver

\* the frame being taken is a frame of a match that is paused, counting down
\* or over
InactiveFrame ==
    /\ frames' = frames + 1
    /\ (isPaused \/ isCountingDown \/ isGameOver)

\* how many times `name` occurs in the sequence of steps
Occurrences(steps, name) == Cardinality({ i \in DOMAIN steps : steps[i] = name })

\* every occurrence of `a` comes before every occurrence of `b`
Before(steps, a, b) ==
    \A i, j \in DOMAIN steps : steps[i] = a /\ steps[j] = b => i < j

\* C1: on a frame of an active match, a ball inside the blue goal (negative
\* z) adds exactly one to score.orange and leaves score.blue, a ball inside
\* the orange goal adds exactly one to score.blue and leaves score.orange,
\* and a ball in neither leaves both; no step of the program lowers a score,
\* raises one by more than 1, or changes one outside such a frame.
C1_GoalCredit ==
    [][ /\ ActiveFrame =>
             LET p == tickLog'.ballAt
             IN  /\ InBlueGoal(GoalDims, p) =>
                       /\ score'.orange = score.orange + 1
                       /\ score'.blue = score.blue
                 /\ InOrangeGoal(GoalDims, p) =>
                       /\ score'.blue = score.blue + 1
                       /\ score'.orange = score.orange
                 /\ ~InBlueGoal(GoalDims, p) /\ ~InOrangeGoal(GoalDims, p) =>
                       score' = score
        /\ score'.blue - score.blue \in {0, 1}
        /\ score'.orange - score.orange \in {0, 1}
        /\ score' # score => ActiveFrame ]_vars

\* the last frame, of an active match, found the ball in the blue goal, and
\* orange has the goal
C1_Witness ==
    /\ Len(tickLog.steps) > 0
    /\ ~tickLog.paused /\ ~tickLog.counting /\ ~tickLog.over
    /\ InBlueGoal(GoalDims, tickLog.ballAt)
    /\ score.orange = 1
    /\ score.blue = 0

\* what C2 says checkGoal returns for a position, in an arena of goal
\* dimensions g
C2_Expected(g, p) ==
    IF /\ Abs(p.x) < g.w \div 2
       /\ p.y < g.h
       /\ -(g.len \div 2 + g.d) < p.z
       /\ p.z < -(g.len \div 2)
    THEN "orange"
    ELSE IF /\ Abs(p.x) < g.w \div 2
            /\ p.y < g.h
            /\ g.len \div 2 < p.z
            /\ p.z < g.len \div 2 + g.d
    THEN "blue"
    ELSE "none"

\* C2: checkGoal returns 'orange' exactly for |x| < goalWidth/2,
\* y < goalHeight and -(length/2 + goalDepth) < z < -length/2, 'blue' exactly
\* for the mirrored band of positive z, and null otherwise; the centre of the
\* blue band gives 'orange', the arena centre gives null, and a position on
\* a bound or one unit beyond it gives null.
C2_CheckGoalRegions ==
    probe.called =>
        LET g == DimsOf(probe.arena)
            p == probe.pos
            bandCentre == g.len \div 2 + g.d \div 2
        IN  /\ probe.result = C2_Expected(g, p)
            /\ p = Vec(0, 0, -bandCentre) => probe.result = "orange"
            /\ p = Vec(0, 0, bandCentre) => probe.result = "blue"
            /\ p = Vec(0, 0, 0) => probe.result = "none"
            /\ Abs(p.x) >= g.w \div 2 => probe.result = "none"
            /\ p.y >= g.h => probe.result = "none"
            /\ Abs(p.z) <= g.len \div 2 => probe.result = "none"
            /\ Abs(p.z) >= g.len \div 2 + g.d => probe.result = "none"

\* checkGoal was called on the centre of the blue band and returned 'orange'
C2_Witness ==
    /\ probe.called
    /\ probe.arena = "current"
    /\ probe.pos = Vec(0, 0, -((StadiumLength * Unit) \div 2 + (goalDepth * Unit) \div 2))
    /\ probe.result = "orange"

\* C3: no position passes both goal tests, so the result does not depend on
\* the order the tests are made in: it is 'orange' exactly when the blue-goal
\* test passes and 'blue' exactly when the orange-goal test passes.
C3_GoalsDisjoint ==
    probe.called =>
        /\ ~(probe.inBlue /\ probe.inOrange)
        /\ probe.result = "orange" <=> probe.inBlue
        /\ probe.result = "blue" <=> probe.inOrange
        /\ probe.result = "none" <=> ~probe.inBlue /\ ~probe.inOrange

\* checkGoal was called on a position that passes the second test only
C3_Witness ==
    /\ probe.called
    /\ probe.inOrange
    /\ ~probe.inBlue
    /\ probe.result = "blue"

\* C4, as the specification states it: a frame of an active match runs the
\* world integration, then both vehicle updates, then the collision resolver
\* exactly once for each vehicle-ball pair, then the goal check.
C4_ResolverInOrder ==
    Len(tickLog.steps) > 0 /\ ~tickLog.paused /\ ~tickLog.counting /\ ~tickLog.over =>
        LET steps == tickLog.steps
            updates == {"playerCar.update", "opponentCar.update"}
            resolvers == {"playerCar.handleBallCollision",
                          "opponentCar.handleBallCollision"}
        IN  /\ Occurrences(steps, "world.step") = 1
            /\ Occurrences(steps, "checkGoal") = 1
            /\ \A u \in updates :
                  /\ Occurrences(steps, u) = 1
                  /\ Before(steps, "world.step", u)
                  /\ Before(steps, u, "checkGoal")
            /\ \A r \in resolvers :
                  /\ Occurrences(steps, r) = 1
                  /\ \A u \in updates : Before(steps, u, r)
                  /\ Before(steps, r, "checkGoal")

\* C5: a frame taken while the match is paused, counting down or over leaves
\* the score, timeRemaining and both cars (position, velocity, speed,
\* boostAmount, jump state, controls) as they were and does not run the goal
\* check.
C5_InactiveFrameIdle ==
    [][ InactiveFrame =>
            /\ score' = score
            /\ timeRemaining' = timeRemaining
            /\ playerCar' = playerCar
            /\ opponentCar' = opponentCar
            /\ Occurrences(tickLog'.steps, "checkGoal") = 0 ]_vars

\* the last frame, later than the first, found the match paused and the
\* player's car holding an intent
C5_Witness ==
    /\ Len(tickLog.steps) > 0
    /\ tickLog.paused
    /\ lastTime > 0
    /\ playerCar.controls # NoControls

\* C6, as the specification states it: the ball's rigid body keeps its
\* position and velocity over a frame taken while the match is paused,
\* counting down or over.
C6_WorldNotStepped ==
    [][ InactiveFrame =>
            /\ ball'.bodyPos = ball.bodyPos
            /\ ball'.bodyVel = ball.bodyVel ]_vars

\* C7: reset() leaves the car at its team's spawn (blue at (-50, groundLevel,
\* -120) facing yaw 0, orange at (50, groundLevel, 120) facing yaw pi) with
\* velocity, angular velocity and speed 0, boostAmount 100, canJump true,
\* isJumping false, jumpCooldown 0, isDrifting false, isOnGround true and
\* all seven intents false, and never changes the team.
C7_ResetToSpawn ==
    [][ carLog'.op = "reset" =>
            /\ car'.team = car.team
            /\ car'.position =
                  IF car.team = "blue"
                  THEN Vec(-50 * Unit, groundLevel, -120 * Unit)
                  ELSE Vec(50 * Unit, groundLevel, 120 * Unit)
            /\ car'.rotY = IF car.team = "blue" THEN 0 ELSE PiMilli
            /\ car'.velocity = Vec(0, 0, 0)
            /\ car'.angularVelocity = 0
            /\ car'.speed = 0
            /\ car'.boostAmount = 100 * Unit
            /\ car'.canJump
            /\ ~car'.isJumping
            /\ car'.jumpCooldown = 0
            /\ ~car'.isDrifting
            /\ car'.isOnGround
            /\ DOMAIN car'.controls = Intents
            /\ Cardinality(Intents) = 7
            /\ \A k \in Intents : ~car'.controls[k] ]_vars

\* reset() has been called on a moving orange car that held intents
C7_Witness ==
    /\ carLog.op = "reset"
    /\ carLog.prevSpeed # 0
    /\ ~carLog.noIntents
    /\ car.team = "orange"
    /\ car.speed = 0
    /\ car.controls = NoControls

\* C8: setControls(partial) gives every intent named in partial the value
\* partial gives it, keeps every other intent, and changes nothing else of
\* the car.
C8_SetControlsExact ==
    [][ carLog'.op = "setControls" =>
            LET partial == carLog'.partial
            IN  /\ \A k \in Intents :
                      car'.controls[k] = IF k \in DOMAIN partial
                                         THEN partial[k]
                                         ELSE car.controls[k]
                /\ [car' EXCEPT !.controls = car.controls] = car ]_vars

\* setControls({left, right}) has been called on a car that held forward and
\* still holds it
C8_Witness ==
    /\ carLog.op = "setControls"
    /\ DOMAIN carLog.partial = {"left", "right"}
    /\ car.controls.left = carLog.partial.left
    /\ car.controls.right = carLog.partial.right
    /\ car.controls.forward
    /\ car.speed # 0

\* C9: an update of a car that holds no intent leaves the magnitude of its
\* speed no larger than it was and never gives the speed the opposite sign.
C9_CoastNeverSpeedsUp ==
    [][ carLog'.op = "update" /\ car.controls = NoControls =>
            /\ Abs(car'.speed) <= Abs(car.speed)
            /\ car.speed >= 0 => car'.speed >= 0
            /\ car.speed <= 0 => car'.speed <= 0 ]_vars

\* an update has stopped a slowly reversing car that held no intent at
\* exactly 0, where a full step of deceleration would have passed it
C9_Witness ==
    /\ carLog.op = "update"
    /\ carLog.noIntents
    /\ carLog.dt > 0
    /\ carLog.prevSpeed < 0
    /\ carLog.prevSpeed + PerMs(deceleration * Unit, carLog.dt) > 0
    /\ car.speed = 0

C11_BoostNeverSlower ==
    carLog.calls >= 1 =>
        /\ car.speed >= twin.speed
        /\ twin.speed <= maxSpeed * Unit
        /\ ~twin.isBoosting
        /\ car.speed <= (maxSpeed * Unit * 3) \div 2
        /\ car.speed > maxSpeed * Unit => car.isBoosting

\* the last update has brought the boosted copy to its ceiling of 1.5
\* maxSpeed, with the plain copy still below maxSpeed
C11_Witness ==
    /\ carLog.calls >= 2
    /\ carLog.prevSpeed < 120 * Unit
    /\ car.isBoosting
    /\ car.speed = 120 * Unit
    /\ twin.speed > 0
    /\ twin.speed < 80 * Unit

\* C12: after every update, whatever the intents and the deltaTime >= 0, the
\* speed is at least -0.6 maxSpeed, at most maxSpeed when isBoosting is
\* false and at most 1.5 maxSpeed when isBoosting is true; handleControls
\* changes the vertical velocity in no update without the jump intent, so
\* the clamp of the speed never alters it.
C12_SpeedWithinLimits ==
    [][ carLog'.op = "update" =>
            /\ car'.speed >= -((maxSpeed * Unit * 6) \div 10)
            /\ ~car'.isBoosting => car'.speed <= maxSpeed * Unit
            /\ car'.isBoosting => car'.speed <= (maxSpeed * Unit * 15) \div 10
            /\ ~car.controls.jump => carLog'.ctl.vy = car.velocity.y ]_vars

\* an update has cut the speed of a car in the air from above maxSpeed down
\* to maxSpeed, its vertical velocity passing through handleControls as it
\* was
C12_Witness ==
    /\ carLog.op = "update"
    /\ carLog.dt > 0
    /\ carLog.prevSpeed > maxSpeed * Unit
    /\ car.speed = maxSpeed * Unit
    /\ ~car.isBoosting
    /\ ~car.isOnGround
    /\ carLog.ctl.vy # 0

\* C13: a car that starts at rest on the ground holding only forward has,
\* once the positive deltas of its updates (each at most 0.1 s) sum to 2
\* seconds, the speed min(acceleration x 2, maxSpeed), however the 2 seconds
\* are split; on the way its speed is min(acceleration x elapsed, maxSpeed).
C13_TwoSecondsOfThrottle ==
    /\ carLog.elapsed = AccelTime =>
          car.speed = Min(acceleration * 2, maxSpeed) * Unit
    /\ car.speed = Min(PerMs(acceleration * Unit, carLog.elapsed), maxSpeed * Unit)

\* the deltas of a run that mixed the two deltas and ended on the shorter one
\* have summed to 2 seconds
C13_Witness ==
    /\ carLog.elapsed = AccelTime
    /\ carLog.op = "update"
    /\ carLog.dt = MinDelta
    /\ carLog.calls > AccelTime \div maxDelta
    /\ car.speed = 80 * Unit

\* the magnitude of the angular velocity C14 compares with: the one a steered
\* update gives at speed 0, 1.5 turnSpeed, times driftTurnMultiplier when
\* drifting
C14_RateAtRest(drifting) ==
    LET base == (turnSpeed * 15) \div 10
    IN  IF drifting THEN (base * driftTurnMultiplier) \div 10 ELSE base

\* C14: at every speed from -0.6 maxSpeed to 1.5 maxSpeed, an update of a
\* car on the ground that holds exactly one of left and right leaves an
\* angular velocity whose magnitude is at least 80% of the magnitude at speed
\* 0 with the same drift state.
C14_SteeringFloor ==
    [][ /\ carLog'.op = "update"
        /\ car.isOnGround
        /\ car.controls.left # car.controls.right
        => /\ 10 * Abs(car'.angularVelocity) >= 8 * C14_RateAtRest(car'.isDrifting)
           /\ Abs(car'.angularVelocity) <= C14_RateAtRest(car'.isDrifting) ]_vars

\* an update has steered a boosting car at 1.5 maxSpeed with exactly 80% of
\* the rate at rest
C14_Witness ==
    /\ carLog.op = "update"
    /\ car.speed = 120 * Unit
    /\ car.isBoosting
    /\ car.controls.left /\ ~car.controls.right
    /\ ~car.isDrifting
    /\ Abs(car.angularVelocity) = 3000

\* C15: the handleControls of an update sets the vertical velocity to
\* jumpForce, marks the car airborne, clears canJump and starts the cooldown
\* exactly when the jump intent is set, the car is on the ground, canJump is
\* true and isJumping is false; in every other case it leaves the vertical
\* velocity, isOnGround, canJump and jumpCooldown as they were.
C15_JumpOnlyWhenArmed ==
    [][ carLog'.op = "update" =>
            LET h == carLog'.ctl
            IN  IF /\ car.controls.jump
                   /\ car.isOnGround
                   /\ car.canJump
                   /\ ~car.isJumping
                THEN /\ h.vy = jumpForce * Unit
                     /\ ~h.isOnGround
                     /\ ~h.canJump
                     /\ h.isJumping
                     /\ h.jumpCooldown = jumpCooldownTime
                ELSE /\ h.vy = car.velocity.y
                     /\ h.isOnGround = car.isOnGround
                     /\ h.canJump = car.canJump
                     /\ h.jumpCooldown = car.jumpCooldown ]_vars

\* an update of 0.1 s has made a car jump: it is in the air, rising at
\* jumpForce less one step of gravity, with the cooldown running
C15_Witness ==
    /\ carLog.op = "update"
    /\ carLog.dt = maxDelta
    /\ carLog.ctl.vy = 10 * Unit
    /\ car.velocity.y = 8 * Unit
    /\ ~car.isOnGround
    /\ ~car.canJump
    /\ car.jumpCooldown = jumpCooldownTime - maxDelta

\* C16: with updates of 0 to 0.1 s and setControls calls in any order and no
\* reset, an update gives a jump impulse only when the deltas handed to
\* update since the update of the previous impulse, that update's included,
\* sum to at least jumpCooldownTime; and canJump goes from false to true
\* only in an update that leaves the car on the ground and found
\* jumpCooldown <= 0.
C16_JumpCooldown ==
    [][ /\ ( /\ carLog'.op = "update"
             /\ car.canJump
             /\ ~carLog'.ctl.canJump
             /\ carLog.jumps >= 1 )
           => carLog.sinceJump >= jumpCooldownTime
        /\ ~car.canJump /\ car'.canJump
           => /\ carLog'.op = "update"
              /\ car'.isOnGround
              /\ car.jumpCooldown <= 0 ]_vars

\* a second jump impulse has been given, in the update that has just run,
\* to a car that had left the ground with the first and landed again
C16_Witness ==
    /\ carLog.op = "update"
    /\ carLog.jumps = 2
    /\ carLog.elapsed >= 3 * jumpCooldownTime
    /\ carLog.prevSpeed = 0
    /\ car.position.y > groundLevel
    /\ carLog.sinceJump = carLog.dt
    /\ carLog.ctl.vy = jumpForce * Unit
    /\ ~carLog.ctl.canJump

\* C17: when handleBallCollision finds contact, the impulse it hands to the
\* ball along the contact normal has magnitude 0 if the car's speed is 0, and
\* then the ball's velocity and the car's velocity are left as they were (no
\* upward impulse, no bounce-back); at a non-zero speed the magnitude is
\* 0.45 |speed| for a head-on hit (directness 1) and strictly less for every
\* hit of smaller directness.
C17_ImpulseByDirectness ==
    (hit.called /\ hit.contact) =>
        /\ car.speed = 0 =>
              /\ hit.impulse = Vec(0, 0, 0)
              /\ hit.upImpulse = Vec(0, 0, 0)
              /\ hit.ball.bodyVel = hit.ballBefore
              /\ car.velocity = hit.carBefore
        /\ (car.speed # 0 /\ hit.directness = 1000) =>
              Length(hit.impulse) = Scale(Abs(car.speed), 45, 100)
        /\ (car.speed # 0 /\ hit.directness < 1000) =>
              Length(hit.impulse) < Scale(Abs(car.speed), 45, 100)

\* a car at full speed has hit the ball obliquely: the ball got an impulse
\* larger than that of a hit abeam and smaller than that of a head-on hit,
\* and the car was pushed back
C17_Witness ==
    /\ hit.called
    /\ hit.contact
    /\ car.speed = maxSpeed * Unit
    /\ hit.directness = 800
    /\ Length(hit.impulse) > Scale(Abs(car.speed), 3, 10)
    /\ Length(hit.impulse) < Scale(Abs(car.speed), 45, 100)
    /\ hit.ball.bodyVel = Add(hit.ballBefore, hit.impulse)
    /\ car.velocity # hit.carBefore

\* C18: when the ball's centre is on the car's centre (distance 0), contact
\* is found and the ball receives an impulse of the computed magnitude
\* (finalForce) along a unit direction.
C18_DefaultDirection ==
    (hit.called /\ hit.distance = 0) =>
        /\ hit.contact
        /\ Length(hit.impulse) = hit.finalForce
        /\ hit.ball.bodyVel = Add(hit.ballBefore, hit.impulse)

\* C19: whatever timestamps animate is called with, the delta a frame hands
\* to world.step and Game.update is at least 0 and at most 0.1 seconds.
C19_DeltaWithinBounds ==
    frames >= 1 => (0 <= tickLog.delta /\ tickLog.delta <= maxDelta)

\* C20 (as stated): after every update of the rate-limited car, boostAmount
\* is between 0 and 100; it has decreased only if the boost intent was set
\* when the update began, and increased only if isBoosting is false.
C20_BoostTank ==
    limited.last.ticked =>
        /\ 0 <= limited.boostAmount
        /\ limited.boostAmount <= limitedBoostFull * Unit
        /\ limited.boostAmount < limited.last.before => limited.last.boost
        /\ limited.boostAmount > limited.last.before => ~limited.isBoosting

\* C20 (amended): after every update of the rate-limited car, boostAmount is
\* between 0 and 100; it has decreased only if the boost intent was set when
\* the update began, by at most boostConsumptionRate * deltaTime; it has
\* increased only if isBoosting is false, by at most boostRechargeRate *
\* deltaTime, or if the update reset a car fallen below y = -50, which
\* refills the tank to 100 whether the car is boosting or not.
C20_BoostTankUnlessReset ==
    limited.last.ticked =>
        /\ 0 <= limited.boostAmount
        /\ limited.boostAmount <= limitedBoostFull * Unit
        /\ limited.boostAmount < limited.last.before =>
              /\ limited.last.boost
              /\ limited.last.before - limited.boostAmount
                    <= PerMs(boostConsumptionRate * Unit, limited.last.dt)
        /\ limited.boostAmount > limited.last.before =>
              \/ /\ ~limited.isBoosting
                 /\ ~limited.last.fell
                 /\ limited.boostAmount - limited.last.before
                       <= PerMs(limitedBoostRechargeRate * Unit, limited.last.dt)
              \/ /\ limited.last.fell
                 /\ limited.boostAmount = limitedBoostFull * Unit
        /\ limited.last.fell => limited.boostAmount = limitedBoostFull * Unit

\* a boosting car with a tank drained below half fell below the floor: the
\* update that reset it refilled the tank while isBoosting stayed true
C20_Witness ==
    /\ limited.last.ticked
    /\ limited.ticks >= 2
    /\ limited.last.fell
    /\ limited.last.boost
    /\ limited.isBoosting
    /\ limited.last.before < (limitedBoostFull * Unit) \div 2
    /\ limited.last.before > 0
    /\ limited.boostAmount = limitedBoostFull * Unit

\* C21: on an update of a car on the ground that holds exactly one of left
\* and right, the steering is inverted (left gives a negative yaw rate,
\* right a positive one) exactly when the car's scalar speed is negative;
\* whenever the speed is positive before and after the update, left gives a
\* positive yaw rate and right a negative one, whatever the forward and
\* backward intents are.
C21_InvertedIffReversing ==
    [][ /\ carLog'.op = "update"
        /\ car.isOnGround
        /\ car.controls.left # car.controls.right
        => LET inverted == IF car.controls.left THEN car'.angularVelocity < 0
                           ELSE car'.angularVelocity > 0
           IN  /\ car'.angularVelocity # 0
               /\ (car.speed > 0 /\ car'.speed > 0) => ~inverted
               /\ (car.speed < 0 /\ car'.speed < 0) => inverted ]_vars

\* C22: when an update finds both left and right set on a car on the ground,
\* either the steering input cancels (the angular velocity only decays, as
\* with no steering intent) or the key pressed last wins, so that a car whose
\* keys went down left then right and one whose keys went down right then
\* left turn opposite ways.
C22_ConflictPolicy ==
    [][ /\ carLog'.op = "update"
        /\ car.isOnGround /\ twin.isOnGround
        /\ car.controls.left /\ car.controls.right
        /\ twin.controls.left /\ twin.controls.right
        => \/ /\ car'.angularVelocity = Scale(car.angularVelocity, 9, 10)
              /\ twin'.angularVelocity = Scale(twin.angularVelocity, 9, 10)
           \/ /\ car'.angularVelocity # 0
              /\ Sign(car'.angularVelocity) = -Sign(twin'.angularVelocity) ]_vars

\* C23: a handleControls call of the rate-limited car on a body whose
\* horizontal velocity (x, z) is no longer than maxSpeed leaves a horizontal
\* velocity no longer than maxSpeed, and a vertical velocity changed by
\* nothing but a jump impulse.
C23_HorizontalSpeedLimited ==
    [][ /\ limited'.ticks = limited.ticks + 1
        /\ LengthCoarse(Vec(limited.velocity.x, 0, limited.velocity.z))
              <= limitedMaxSpeed * Unit
        => /\ LengthCoarse(Vec(limited'.velocity.x, 0, limited'.velocity.z))
                 <= limitedMaxSpeed * Unit
           /\ limited'.velocity.y =
                 limited.velocity.y
                 + (IF limited.canJump /\ ~limited'.canJump
                    THEN (limitedJumpForce * Unit) \div limitedMass ELSE 0) ]_vars

\* C24: in every state in which the match is paused, a 'p' keydown is
\* possible that sets isPaused back to false.
C24_PauseReversible ==
    isPaused =>
        ENABLED (/\ HandleKeyDown("p", CHOOSE v \in LaunchVelocities : TRUE)
                 /\ ~isPaused')

\* C25: at most one countdown interval is pending at any time, isCountingDown
\* is true exactly while one is pending, countdownTime is 3, 2 or 1 while
\* counting and 0 once the countdown has ended; a countdown starts at 3, each
\* firing of its timer takes 1 off, and it ends with the firing that reaches
\* 0, the third.
C25_OneCountdown ==
    /\ [](/\ pendingIntervals \in {0, 1}
          /\ isCountingDown <=> pendingIntervals = 1
          /\ isCountingDown => countdownTime \in {1, 2, 3}
          /\ ~isCountingDown => countdownTime = 0)
    /\ [][ /\ (~isCountingDown /\ isCountingDown') =>
                  countdownTime' = countdownStart
           /\ (isCountingDown /\ countdownTime' # countdownTime) =>
                  /\ countdownTime' = countdownTime - 1
                  /\ isCountingDown' <=> countdownTime' > 0
           /\ (isCountingDown /\ ~isCountingDown') => countdownTime = 1 ]_vars

\* a goal has started a second countdown, whose timer has fired twice
C25_Witness ==
    /\ score.blue + score.orange >= 1
    /\ isCountingDown
    /\ pendingIntervals = 1
    /\ countdownTime = 1

\* C26: with the frame timestamps never going back, timeRemaining stays
\* between 0 and gameTime and never increases, not even on a round reset;
\* isGameOver becomes true only on a frame that takes timeRemaining to 0; once
\* true it stays true, and from then on the score, timeRemaining and the
\* countdown state do not change: no key or timer starts a countdown.
C26_ClockRunsDown ==
    /\ [](/\ 0 <= timeRemaining
          /\ timeRemaining <= gameTime * 1000
          /\ isGameOver <=> timeRemaining = 0
          /\ isGameOver => (~isCountingDown /\ pendingIntervals = 0))
    /\ [][ /\ timeRemaining' <= timeRemaining
           /\ (~isGameOver /\ isGameOver') =>
                 /\ frames' = frames + 1
                 /\ timeRemaining > 0
                 /\ timeRemaining' = 0
           /\ isGameOver =>
                 /\ isGameOver'
                 /\ score' = score
                 /\ timeRemaining' = timeRemaining
                 /\ isCountingDown' = isCountingDown
                 /\ countdownTime' = countdownTime
                 /\ pendingIntervals' = pendingIntervals ]_vars

\* the clock has run out, and a later frame found the match over
C26_Witness ==
    /\ isGameOver
    /\ timeRemaining = 0
    /\ tickLog.over
    /\ frames >= 3
    /\ ~isCountingDown

\* C27: during a countdown no control intent of either car goes from false
\* to true, and when a countdown ends (isCountingDown goes from true to false)
\* all seven intents of the player's car and of the opponent's car are false.
C27_ControlsClearAtGo ==
    [][ /\ (isCountingDown /\ isCountingDown') =>
              \A k \in Intents :
                  /\ playerCar'.controls[k] => playerCar.controls[k]
                  /\ opponentCar'.controls[k] => opponentCar.controls[k]
        /\ (isCountingDown /\ ~isCountingDown') =>
              /\ playerCar'.controls = NoControls
              /\ opponentCar'.controls = NoControls
        /\ (~isCountingDown /\ isCountingDown') =>
              /\ playerCar'.controls = NoControls
              /\ opponentCar'.controls = NoControls ]_vars

\* a countdown started by a round reset has ended with no intent set,
\* although the boost key had been pressed before the reset (its sound still
\* plays)
C27_Witness ==
    /\ ~isCountingDown
    /\ countdownTime = 0
    /\ boostPlaying
    /\ frames = 0
    /\ playerCar.controls = NoControls
    /\ opponentCar.controls = NoControls

\* C28: after every update the car's centre is within the walls,
\* |x| <= 150 - width / 2 and |z| <= 225 - length / 2, and not below
\* groundLevel, and the update has not taken its out-of-bounds branch
\* (y < -50).
C28_InsideThePitch ==
    carLog.op = "update" =>
        /\ Abs(car.position.x) <= 146 * Unit
        /\ Abs(car.position.z) <= 219 * Unit
        /\ car.position.y >= groundLevel
        /\ ~carLog.fell

\* a boosting car has driven into the side wall: it is held at the wall and
\* thrown back at half its speed
C28_Witness ==
    /\ carLog.op = "update"
    /\ carLog.dt = maxDelta
    /\ carLog.prevSpeed = 120 * Unit
    /\ car.position.x = 146 * Unit
    /\ car.velocity.x = -60 * Unit
    /\ car.position.y = groundLevel
    /\ car.isOnGround

\* C29 (as stated): on an update of a car whose forward, backward and boost
\* intents are all false, the magnitude of the speed decreases by at most
\* deceleration * deltaTime.
C29_GentleCoast ==
    [][ /\ carLog'.op = "update"
        /\ ~car.controls.forward /\ ~car.controls.backward /\ ~car.controls.boost
        => /\ Abs(car'.speed) <= Abs(car.speed)
           /\ Abs(car.speed) - Abs(car'.speed)
                 <= PerMs(deceleration * Unit, carLog'.dt) ]_vars

\* C29 (amended): on an update of a car whose forward, backward and boost
\* intents are all false, the magnitude of the speed does not grow; it
\* decreases by at most deceleration * deltaTime when the speed before the
\* update is at most maxSpeed, and when it is above maxSpeed (the boost was
\* just released) the speed after the update is the smaller of maxSpeed and
\* the speed less deceleration * deltaTime.
C29_CoastOrClamp ==
    [][ /\ carLog'.op = "update"
        /\ ~car.controls.forward /\ ~car.controls.backward /\ ~car.controls.boost
        => /\ Abs(car'.speed) <= Abs(car.speed)
           /\ car.speed <= maxSpeed * Unit =>
                 Abs(car.speed) - Abs(car'.speed)
                    <= PerMs(deceleration * Unit, carLog'.dt)
           /\ car.speed > maxSpeed * Unit =>
                 car'.speed = Min(maxSpeed * Unit,
                                  car.speed - PerMs(deceleration * Unit, carLog'.dt)) ]_vars

\* a car at 1.5 maxSpeed whose boost was released has been updated for 0.05 s:
\* its speed is maxSpeed
C29_Witness ==
    /\ carLog.op = "update"
    /\ carLog.noIntents
    /\ carLog.dt = MinDelta
    /\ carLog.prevSpeed = Scale(maxSpeed * Unit, 15, 10)
    /\ car.speed = maxSpeed * Unit
    /\ ~car.isBoosting

\* C30: the looping boost sound is playing exactly when at least one of the
\* two cars has its boost intent set.  (AudioManager keeps one reference,
\* playingSounds.boost, and startBoost creates a source only when it is
\* empty, so boostPlaying stands for the one source there can be.)
C30_BoostSoundTracksIntent ==
    boostPlaying <=> (playerCar.controls.boost \/ opponentCar.controls.boost)

=============================================================================
